---- MODULE Spec2Model ----
(***************************************************************************)
(* Loop perforation (LoopPerforation.cpp): the loop-count pass that        *)
(* records the perforable loops of every function in a JSON catalog, and   *)
(* the loop-perf pass that rewrites the increment of the loops listed in   *)
(* a JSON table of rates.                                                  *)
(*                                                                         *)
(* Strings (module names, function names, loop strings) are sequences of   *)
(* tokens, so that concatenation is \o and substring search is SubSeq.     *)
(* A JSON value is a record [t, v, m]: t is "null", "int" or "obj", v the  *)
(* number of an "int", m the key -> value map of an "obj".                 *)
(***************************************************************************)
EXTENDS Integers, Sequences, FiniteSets, TLC

(* ---------------------------- bounds ----------------------------------- *)

\* Number of loops of the program under compilation.
MaxLoops == 2

\* Largest perforation rate a rates file carries.
MaxRate == 4

\* Bit width of the widest induction variable type.
MaxWidth == 3

LoopIds == 1..MaxLoops

(* ---------------------------- strings ---------------------------------- *)

NO_PERF == <<"N", "O", "_", "P", "E", "R", "F">>

\* std::string::find(pat) != npos
Contains(s, pat) ==
  \E i \in 0..(Len(s) - Len(pat)) : SubSeq(s, i + 1, i + Len(pat)) = pat

(* ----------------------------- JSON ------------------------------------ *)

NoMap == <<>>

JNull == [t |-> "null", v |-> 0, m |-> NoMap]

JInt(n) == [t |-> "int", v |-> n, m |-> NoMap]

JObj(map) == [t |-> "obj", v |-> 0, m |-> map]

\* json::contains(key): false on anything that is not an object
JContains(j, key) == j.t = "obj" /\ key \in DOMAIN j.m

\* json::empty() with the answer inverted
JEmptyInverted(j) ==
  CASE j.t = "null" -> FALSE
    [] j.t = "obj" -> DOMAIN j.m # {}
    [] OTHER -> TRUE

\* json::empty(): null is empty, an object is empty when it has no member,
\* a number never is
JEmpty(j) ==
  CASE j.t = "null" -> TRUE
    [] j.t = "obj" -> DOMAIN j.m = {}
    [] OTHER -> FALSE

\* the value operator[] (key) refers to, once the member exists
JAt(j, key) == IF JContains(j, key) THEN j.m[key] ELSE JNull

\* the object after `j[key] = val`: operator[] turns null into an object
\* and adds the member when it is missing (j is null or an object)
JPut(j, key, val) ==
  LET old == IF j.t = "obj" THEN j.m ELSE NoMap
  IN  JObj([k \in (DOMAIN old) \cup {key} |-> IF k = key THEN val ELSE old[k]])

\* the object after the non-const operator[] (key) was evaluated on it:
\* a missing member is inserted as null
JTouch(j, key) == IF JContains(j, key) THEN j ELSE JPut(j, key, JNull)

\* j[k1][k2][k3] = val, every level created on the way
JPut3(j, k1, k2, k3, val) ==
  LET j1 == JAt(JTouch(j, k1), k1)
      j2 == JAt(JTouch(j1, k2), k2)
  IN  JPut(j, k1, JPut(j1, k2, JPut(j2, k3, val)))

\* the (k1, k2, k3) triples that are keys of a three-level table
JKeys(j) ==
  IF j.t # "obj" THEN {}
  ELSE UNION { IF j.m[a].t # "obj" THEN {}
               ELSE UNION { IF j.m[a].m[b].t # "obj" THEN {}
                            ELSE { <<a, b, c>> : c \in DOMAIN j.m[a].m[b].m }
                            : b \in DOMAIN j.m[a].m }
               : a \in DOMAIN j.m }

(* ------------------------- the program (IR) ---------------------------- *)

\* The functions of the modules under compilation: module name, function name.
Fns ==
  << [mod |-> <<"a">>, name |-> <<"N", "O", "_", "P", "E", "R", "f">>],
     [mod |-> <<"a">>, name |-> <<"x", "N", "O", "_", "P", "E", "R", "F", "y">>],
     [mod |-> <<"b">>, name |-> <<"N", "O", "_", "P", "E", "R", "f">>] >>

FnIds == 1..Len(Fns)

\* Operands of an instruction: the header phi, a constant, another value.
OpPhi == [k |-> "phi", v |-> 0]

OpConst(n) == [k |-> "const", v |-> n]

OpVal == [k |-> "val", v |-> 0]

\* A loop in loop-simplify form with the canonical induction variable
\*   %i = phi [0, %preheader], [%inc, %latch] ;  %inc = add %i, 1
\* "H" is the loop's header block and "B" its body block.
BaseShape ==
  [ preheader |-> TRUE, latches |-> {"B"}, exiting |-> {"H"},
    dedicatedExits |-> TRUE, hasPhi |-> TRUE, start |-> OpConst(0),
    opcode |-> "add", ops |-> <<OpPhi, OpConst(1)>>, width |-> MaxWidth ]

\* The loop shapes the program is built from.
Shapes ==
  { BaseShape,
    [BaseShape EXCEPT !.latches = {"H", "B"}],
    [BaseShape EXCEPT !.preheader = FALSE, !.exiting = {"B"},
                      !.width = MaxWidth - 1],
    [BaseShape EXCEPT !.hasPhi = FALSE, !.ops = <<OpVal, OpConst(1)>>],
    [BaseShape EXCEPT !.ops = <<OpPhi, OpConst(2)>>] }

\* The loop forests: a loop's parent has a smaller number and lies in the
\* same function; 0 is "top-level loop".
Forests ==
  { fr \in [LoopIds -> [fn : FnIds, parent : 0..MaxLoops]] :
      \A l \in LoopIds :
        /\ fr[l].parent < l
        /\ fr[l].parent # 0 => fr[l].fn = fr[fr[l].parent].fn }

\* Loop::getSubLoops()
getSubLoops(ir, l) == { c \in DOMAIN ir : ir[c].parent = l }

\* LoopInfo's top-level loops of function f
TopLevelLoops(ir, f) == { l \in DOMAIN ir : ir[l].fn = f /\ ir[l].parent = 0 }

\* The position of loop l among the loops of its function; its two blocks
\* carry the labels 2n-1 (header) and 2n (body).
LocalIdx(ir, l) == Cardinality({ k \in DOMAIN ir : k <= l /\ ir[k].fn = ir[l].fn })

getHeader(ir, l) == 2 * LocalIdx(ir, l) - 1

BodyBlock(ir, l) == 2 * LocalIdx(ir, l)

\* the elements of a set of numbers in increasing order
RECURSIVE SortedSeq(_)
SortedSeq(S) ==
  IF S = {} THEN <<>>
  ELSE LET x == CHOOSE y \in S : \A z \in S : y <= z
       IN  <<x>> \o SortedSeq(S \ {x})

\* Loop::getBlocks(): the header first, then the blocks of the sub-loops,
\* then the body block
RECURSIVE getBlocks(_, _), BlocksOfAll(_, _)
getBlocks(ir, l) ==
  <<getHeader(ir, l)>> \o BlocksOfAll(ir, SortedSeq(getSubLoops(ir, l)))
    \o <<BodyBlock(ir, l)>>

BlocksOfAll(ir, ls) ==
  IF ls = <<>> THEN <<>>
  ELSE getBlocks(ir, Head(ls)) \o BlocksOfAll(ir, Tail(ls))

\* Loop::isLoopLatch(BB): BB is a block of the loop that branches to the
\* header; h and b are the loop's header and body block
isLoopLatch(ir, l, bb, h, b) ==
  \/ bb = h /\ "H" \in ir[l].latches
  \/ bb = b /\ "B" \in ir[l].latches

\* Loop::isLoopExiting(BB): BB is a block of the loop with a successor outside
isLoopExiting(ir, l, bb, h, b) ==
  \/ bb = h /\ "H" \in ir[l].exiting
  \/ bb = b /\ "B" \in ir[l].exiting

\* BasicBlock::printAsOperand(stream, false)
printAsOperand(bb) == "%" \o ToString(bb)

\* StringifyLoop: the loop's blocks joined by ",", each with its role tags
RECURSIVE StringifyFrom(_, _, _, _, _, _)
StringifyFrom(ir, l, blocks, first, h, b) ==
  IF blocks = <<>> THEN <<>>
  ELSE (IF first THEN <<>> ELSE <<",">>)
         \o <<printAsOperand(Head(blocks))>>
         \o (IF Head(blocks) = h THEN <<"<header>">> ELSE <<>>)
         \o (IF isLoopLatch(ir, l, Head(blocks), h, b) THEN <<"<latch>">> ELSE <<>>)
         \o (IF isLoopExiting(ir, l, Head(blocks), h, b) THEN <<"<exiting>">> ELSE <<>>)
         \o StringifyFrom(ir, l, Tail(blocks), FALSE, h, b)

StringifyLoop(ir, l) ==
  StringifyFrom(ir, l, getBlocks(ir, l), TRUE, getHeader(ir, l), BodyBlock(ir, l))

\* Loop::isLoopSimplifyForm(): a preheader, a single latch, dedicated exits
isLoopSimplifyForm(ir, l) ==
  /\ ir[l].preheader
  /\ Cardinality(ir[l].latches) = 1
  /\ ir[l].dedicatedExits

\* Loop::getCanonicalInductionVariable() (LLVM, called at lines 81 and 189):
\* the header phi that starts at the constant 0 and whose back-edge value is
\* `add phi, 1`, in a header with one predecessor outside the loop and one
\* inside (a loop without a preheader still has a single entering edge here,
\* from a block with other successors).  FALSE stands for nullptr.
getCanonicalInductionVariable(ir, l) ==
  /\ Cardinality(ir[l].latches) = 1
  /\ ir[l].hasPhi
  /\ ir[l].start = OpConst(0)
  /\ ir[l].opcode = "add"
  /\ ir[l].ops[1] = OpPhi
  /\ ir[l].ops[2] = OpConst(1)

\* PHI->users() that are instructions feeding the phi: the increment uses
\* the phi when the phi is one of its operands
IncUsesPhi(ir, l) == \E i \in DOMAIN ir[l].ops : ir[l].ops[i] = OpPhi

\* The user/incoming scan: the value that is both a user of the phi and an
\* incoming value of it ("inc"), or "null".  The start value comes from
\* outside the loop and never uses the phi.
FindValueToChange(ir, l) == IF IncUsesPhi(ir, l) THEN "inc" ELSE "null"

\* isa<BinaryOperator>(ValueToChange)
BinaryOpcodes == {"add", "sub", "mul"}

IsBinaryOperator(ir, l, val) == val = "inc" /\ ir[l].opcode \in BinaryOpcodes

FnName(ir, l) == Fns[ir[l].fn].name

ModName(ir, l) == Fns[ir[l].fn].mod

\* isLoopPerforable without the loop-simplify test
isLoopPerforableNoSimplify(ir, l) ==
  /\ ~Contains(FnName(ir, l), NO_PERF)
  /\ getCanonicalInductionVariable(ir, l)
  /\ IsBinaryOperator(ir, l, FindValueToChange(ir, l))

\* isLoopPerforable without the induction variable tests
isLoopPerforableNoIV(ir, l) ==
  /\ ~Contains(FnName(ir, l), NO_PERF)
  /\ isLoopSimplifyForm(ir, l)

isLoopPerforable(ir, l) ==
  IF Contains(FnName(ir, l), NO_PERF) THEN FALSE
  ELSE IF ~isLoopSimplifyForm(ir, l) THEN FALSE
  ELSE IF ~getCanonicalInductionVariable(ir, l) THEN FALSE
  ELSE IF FindValueToChange(ir, l) = "null" THEN FALSE
  ELSE IF ~IsBinaryOperator(ir, l, FindValueToChange(ir, l)) THEN FALSE
  ELSE TRUE

(* --------------------------- integers ---------------------------------- *)

RECURSIVE Pow2(_)
Pow2(n) == IF n = 0 THEN 1 ELSE 2 * Pow2(n - 1)

\* the two's complement value of n in w bits
SignedWrap(n, w) ==
  LET u == n % Pow2(w)
  IN  IF u >= Pow2(w - 1) THEN u - Pow2(w) ELSE u

\* ConstantInt::get(Ty, V, /*issigned*/ true): V in the width of Ty
ConstantIntGet(w, n) == OpConst(SignedWrap(n, w))

(* ----------------------- the loop-count pass --------------------------- *)

\* handleLoop: record the loop if it is perforable, then its sub-loops
RECURSIVE handleLoop(_, _, _), HandleLoops(_, _, _)
\* handleLoop that does not descend into the sub-loops of a loop it skips
handleLoopPruning(ir, j, l) ==
  IF isLoopPerforable(ir, l)
  THEN HandleLoops(ir,
         JPut3(j, ModName(ir, l), FnName(ir, l), StringifyLoop(ir, l), JNull),
         SortedSeq(getSubLoops(ir, l)))
  ELSE j

handleLoop(ir, j, l) ==
  LET j1 == IF isLoopPerforable(ir, l)
            THEN JPut3(j, ModName(ir, l), FnName(ir, l), StringifyLoop(ir, l), JNull)
            ELSE j
  IN  HandleLoops(ir, j1, SortedSeq(getSubLoops(ir, l)))

HandleLoops(ir, j, ls) ==
  IF ls = <<>> THEN j
  ELSE HandleLoops(ir, handleLoop(ir, j, Head(ls)), Tail(ls))

\* runOnFunction: every top-level loop of the function
runOnFunction(ir, j, f) == HandleLoops(ir, j, SortedSeq(TopLevelLoops(ir, f)))

(* ----------------------- the loop-perf pass ---------------------------- *)

\* The test of lines 183-185 written with operator[] only: every level is
\* accessed before it is tested
TableGuardEager(j, m, f, s) ==
  LET j1 == JTouch(j, m)
      j2 == JPut(j1, m, JTouch(JAt(j1, m), f))
  IN  [skip |-> ~JContains(JAt(JAt(j2, m), f), s), j |-> j2]

\* The test of lines 183-185 looking for the loop string under any function
\* of the module
TableGuardAnyFunction(j, m, f, s) ==
  [skip |-> ~(JContains(j, m) /\ \E g \in DOMAIN JAt(j, m).m : JContains(JAt(j, m).m[g], s)),
   j |-> j]

\* The test of lines 183-185, left to right with short-circuit evaluation.
\* skip: the loop is not in the table; j: the table once the test has run
\* (operator[] is only reached for a member that contains() has found).
TableGuard(j, m, f, s) ==
  IF ~JContains(j, m) THEN [skip |-> TRUE, j |-> j]
  ELSE LET j1 == JTouch(j, m)
       IN  IF ~JContains(JAt(j1, m), f) THEN [skip |-> TRUE, j |-> j1]
           ELSE LET j2 == JPut(j1, m, JTouch(JAt(j1, m), f))
                IN  IF ~JContains(JAt(JAt(j2, m), f), s)
                    THEN [skip |-> TRUE, j |-> j2]
                    ELSE [skip |-> FALSE, j |-> j2]

\* j[m][f][s] of line 210: the table after the access, and the value read
TableRead(j, m, f, s) ==
  LET j1 == JTouch(j, m)
      j2 == JPut(j1, m, JTouch(JAt(j1, m), f))
      j3 == JPut(j2, m, JPut(JAt(j2, m), f, JTouch(JAt(JAt(j2, m), f), s)))
  IN  [j |-> j3, val |-> JAt(JAt(JAt(j3, m), f), s)]

\* the first operand of the increment, the phi or not
FirstOperand(ir, l) == 1

\* the first operand of the increment that is not the phi, 0 if there is none
FirstNonPhiOperand(ir, l) ==
  LET idx == { i \in DOMAIN ir[l].ops : ir[l].ops[i] # OpPhi }
  IN  IF idx = {} THEN 0 ELSE CHOOSE i \in idx : \A k \in idx : i <= k

\* runOnLoop.  LoopRate is an `int`: the rates of the model lie in its range,
\* so the conversion from the table's number keeps the value.  ret is "true" or "false" (the value returned), "ub" (a null
\* PHI or a null Increment is dereferenced) or "abort" (the table's value is
\* not a number: json's conversion to int fails).
runOnLoop(ir, j, l) ==
  LET m == ModName(ir, l)
      f == FnName(ir, l)
      s == StringifyLoop(ir, l)
      g == TableGuard(j, m, f, s)
      op == FirstNonPhiOperand(ir, l)
      rd == TableRead(g.j, m, f, s)
  IN  IF g.skip THEN [ret |-> "false", ir |-> ir, j |-> g.j]
      ELSE IF ~getCanonicalInductionVariable(ir, l)
      THEN [ret |-> "ub", ir |-> ir, j |-> g.j]
      ELSE IF ~IsBinaryOperator(ir, l, FindValueToChange(ir, l))
      THEN [ret |-> "ub", ir |-> ir, j |-> g.j]
      ELSE IF op = 0 THEN [ret |-> "false", ir |-> ir, j |-> g.j]
      ELSE IF JEmpty(g.j)
      THEN [ret |-> "true", j |-> g.j,
            ir |-> [ir EXCEPT ![l].ops[op] = ConstantIntGet(ir[l].width, 1)]]
      ELSE IF rd.val.t # "int" THEN [ret |-> "abort", ir |-> ir, j |-> rd.j]
      ELSE [ret |-> "true", j |-> rd.j,
            ir |-> [ir EXCEPT ![l].ops[op] =
                      ConstantIntGet(ir[l].width, rd.val.v)]]

(* ------------------------- the rates file ------------------------------ *)

\* The rates a rates file assigns.
Rates == {2, MaxRate}

\* What a rates file holds for a loop: a rate, or the null the catalog holds.
Leaves == {JNull} \cup { JInt(r) : r \in Rates }

\* The rates files made from a catalog: every entry is dropped or kept,
\* with a rate or as it is.
RECURSIVE AssignRates(_)
AssignRates(keys) ==
  IF keys = {} THEN {JObj(NoMap)}
  ELSE LET k == CHOOSE x \in keys : TRUE
       IN  UNION { {t} \cup { JPut3(t, k[1], k[2], k[3], leaf) : leaf \in Leaves }
                   : t \in AssignRates(keys \ {k}) }

\* Rates files written by hand: one entry, for one loop of the program, and
\* tables with an empty module or function object.
HandWritten(ir) ==
  { JPut3(JObj(NoMap), ModName(ir, l), FnName(ir, l), StringifyLoop(ir, l), JInt(2)) :
      l \in DOMAIN ir }
    \cup { JPut(JObj(NoMap), Fns[1].mod, JObj(NoMap)),
           JPut(JObj(NoMap), Fns[1].mod, JPut(JObj(NoMap), Fns[1].name, JObj(NoMap))) }

\* The contents a rates file can have when the loop-perf pass starts.
RateFiles(ir, info) ==
  (IF info.exists THEN AssignRates(JKeys(info.content)) ELSE {}) \cup HandWritten(ir)

(* --------------------------- the state --------------------------------- *)

VARIABLES
  phase,      \* "count": loop-count pass runs; "written": it is destroyed;
              \* "perf": loop-perf pass runs; "dead": the process has died
  loops,      \* the IR: the loops of the program
  cj,         \* LoopCountPass::j
  funcsDone,  \* the functions runOnFunction has been called on
  infoFile,   \* the file InfoFilename names
  infoWrites, \* how many times that file has been written
  rj,         \* LoopPerforationPass::j
  visited,    \* the loops runOnLoop has been called on
  ret,        \* what runOnLoop returned for each loop
  changes     \* how many times each loop was reported as changed

vars ==
  <<phase, loops, cj, funcsDone, infoFile, infoWrites, rj, visited, ret, changes>>

\* LoopCountPass is constructed over some program: j is null, nothing written.
Init ==
  /\ phase = "count"
  /\ \E fr \in Forests, sh \in [LoopIds -> Shapes] :
       loops = [l \in LoopIds |->
                  [ fn |-> fr[l].fn, parent |-> fr[l].parent,
                    preheader |-> sh[l].preheader, latches |-> sh[l].latches,
                    exiting |-> sh[l].exiting,
                    dedicatedExits |-> sh[l].dedicatedExits,
                    hasPhi |-> sh[l].hasPhi, start |-> sh[l].start,
                    opcode |-> sh[l].opcode, ops |-> sh[l].ops,
                    width |-> sh[l].width ]]
  /\ cj = JNull
  /\ funcsDone = {}
  /\ infoFile = [exists |-> FALSE, content |-> JNull]
  /\ infoWrites = 0
  /\ rj = JNull
  /\ visited = {}
  /\ ret = [l \in LoopIds |-> "none"]
  /\ changes = [l \in LoopIds |-> 0]

\* runOnFunction that also dumps the catalog
RunOnFunctionWriting(f) ==
  /\ phase = "count"
  /\ f \notin funcsDone
  /\ cj' = runOnFunction(loops, cj, f)
  /\ funcsDone' = funcsDone \cup {f}
  /\ infoFile' = [exists |-> TRUE, content |-> cj']
  /\ infoWrites' = infoWrites + 1
  /\ UNCHANGED <<phase, loops, rj, visited, ret, changes>>

\* LoopCountPass::runOnFunction(F)
RunOnFunction(f) ==
  /\ phase = "count"
  /\ f \notin funcsDone
  /\ cj' = runOnFunction(loops, cj, f)
  /\ funcsDone' = funcsDone \cup {f}
  /\ UNCHANGED <<phase, loops, infoFile, infoWrites, rj, visited, ret, changes>>

\* ~LoopCountPass(): the catalog is dumped to the info file.  The pass manager
\* destroys the pass after it has run it on every function.
DestroyLoopCountPass ==
  /\ phase = "count"
  /\ funcsDone = FnIds
  /\ infoFile' = [exists |-> TRUE, content |-> cj]
  /\ infoWrites' = infoWrites + 1
  /\ phase' = "written"
  /\ UNCHANGED <<loops, cj, funcsDone, rj, visited, ret, changes>>

\* LoopPerforationPass(): the rates file is read and parsed if it exists;
\* without a file j stays the null it is constructed as
ConstructLoopPerforationPass ==
  /\ phase = "written"
  /\ \/ rj' = JNull
     \/ \E t \in RateFiles(loops, infoFile) : rj' = t
  /\ phase' = "perf"
  /\ UNCHANGED <<loops, cj, funcsDone, infoFile, infoWrites, visited, ret, changes>>

\* LoopPerforationPass::runOnLoop(L).  Dereferencing a null pointer is
\* undefined: the process dies, or goes on having done nothing.
RunOnLoop(l) ==
  /\ phase = "perf"
  /\ l \notin visited
  /\ \E r \in {runOnLoop(loops, rj, l)} :
         /\ loops' = r.ir
         /\ rj' = r.j
         /\ ret' = [ret EXCEPT ![l] = r.ret]
         /\ changes' = [changes EXCEPT ![l] = @ + (IF r.ret = "true" THEN 1 ELSE 0)]
         /\ phase' \in (CASE r.ret = "ub" -> {"dead", "perf"}
                          [] r.ret = "abort" -> {"dead"}
                          [] OTHER -> {"perf"})
  /\ visited' = visited \cup {l}
  /\ UNCHANGED <<cj, funcsDone, infoFile, infoWrites>>

Next ==
  \/ \E f \in FnIds : RunOnFunction(f)
  \/ DestroyLoopCountPass
  \/ ConstructLoopPerforationPass
  \/ \E l \in LoopIds : RunOnLoop(l)

Spec == Init /\ [][Next]_vars

(* ------------------------- the properties ------------------------------ *)

\* The (module name, function name, loop string) triple of a loop.
Key(l) == <<ModName(loops, l), FnName(loops, l), StringifyLoop(loops, l)>>

\* The value a three-level table holds under a triple that is a key of it.
Leaf(j, k) == j.m[k[1]].m[k[2]].m[k[3]]

\* No object of a three-level table is empty.
NoEmptyObject(j) ==
  j.t = "obj" =>
    /\ DOMAIN j.m # {}
    /\ \A a \in DOMAIN j.m :
         /\ j.m[a].t = "obj" /\ DOMAIN j.m[a].m # {}
         /\ \A b \in DOMAIN j.m[a].m :
              j.m[a].m[b].t = "obj" /\ DOMAIN j.m[a].m[b].m # {}

\* The loops of the functions visited so far that isLoopPerforable accepts.
PerforableVisited ==
  { l \in LoopIds : loops[l].fn \in funcsDone /\ isLoopPerforable(loops, l) }

\* C1 (catalog completeness): while and after the loop-count pass runs, the
\* catalog has an entry [module][function][loop string] for exactly the loops,
\* at every depth, of the functions visited for which isLoopPerforable is
\* true, and nothing else; a perforable sub-loop of a loop that is not
\* perforable is recorded too.
C1_CatalogCompleteness ==
  phase \in {"count", "written"} =>
    /\ JKeys(cj) = { Key(l) : l \in PerforableVisited }
    /\ NoEmptyObject(cj)

\* C1 witness: every function was visited and the catalog holds a sub-loop
\* whose parent is not perforable, beside no entry for the parent.
C1_Witness ==
  /\ phase = "written"
  /\ \E l \in LoopIds :
       /\ loops[l].parent # 0
       /\ ~isLoopPerforable(loops, loops[l].parent)
       /\ Key(l) \in JKeys(infoFile.content)
       /\ Key(loops[l].parent) \notin JKeys(infoFile.content)

\* Loop l, of triple k, is a loop runOnLoop was called on, that the loop-count
\* pass recorded and that has an integer rate in the rates table.
Rewritten(l, k) ==
  /\ l \in visited
  /\ k \in JKeys(cj)
  /\ k \in JKeys(rj)
  /\ Leaf(rj, k).t = "int"

C3_NoOpOnAbsentEntry ==
  [][ \A l \in LoopIds :
        (l \in visited' /\ l \notin visited) =>
          /\ Key(l) \notin JKeys(rj) => (loops' = loops /\ ret'[l] = "false")
          /\ loops' # loops => Key(l) \in JKeys(rj) ]_vars

\* C3 witness: a loop was skipped and is as it was, under a table that has
\* its module and its function but not its loop string, and that made the
\* pass rewrite another loop.
C3_Witness ==
  \E l, k \in visited :
    /\ JContains(rj, Key(l)[1]) /\ JContains(rj.m[Key(l)[1]], Key(l)[2])
    /\ Key(l) \notin JKeys(rj)
    /\ ret[l] = "false" /\ loops[l].ops = BaseShape.ops
    /\ ret[k] = "true"

\* C4 as stated (default-rate fallback): with no rates file, so with an empty
\* table, every loop the loop-count pass recorded gets the constant 1 as its
\* increment operand and is reported changed.
C4_AsStated ==
  (phase \in {"perf", "dead"} /\ rj = JNull) =>
    \A l \in visited :
      Key(l) \in JKeys(cj) =>
        /\ ret[l] = "true"
        /\ loops[l].ops = <<OpPhi, OpConst(1)>>

\* C5 as stated (NO_PERF opt-out in both passes): no loop of a function whose
\* name contains NO_PERF is recorded in the catalog, and none is mutated by
\* the loop-perf pass, whatever the rates table holds.
C5_AsStated ==
  \A l \in LoopIds :
    Contains(FnName(loops, l), NO_PERF) =>
      /\ ~isLoopPerforable(loops, l)
      /\ Key(l) \notin JKeys(cj)
      /\ ret[l] # "true"

\* C6 (single write at teardown): the info file is written at most once; it
\* is not written while the pass still runs on functions; once the pass is
\* destroyed it has been written exactly once, holds the catalog as
\* accumulated, and that catalog has the entries of all functions.
C6_SingleWriteAtTeardown ==
  /\ infoWrites <= 1
  /\ phase = "count" => (infoWrites = 0 /\ ~infoFile.exists)
  /\ phase # "count" =>
       /\ infoWrites = 1 /\ infoFile.exists
       /\ funcsDone = FnIds
       /\ infoFile.content = cj
  /\ phase = "written" =>
       JKeys(infoFile.content) = { Key(l) : l \in { k \in LoopIds : isLoopPerforable(loops, k) } }

\* C6 witness: the file was written once, with entries of two functions.
C6_Witness ==
  /\ phase = "written"
  /\ infoWrites = 1
  /\ \E k1, k2 \in JKeys(infoFile.content) : <<k1[1], k1[2]>> # <<k2[1], k2[2]>>

\* C7 (rate table immutability): no runOnLoop call changes the table of the
\* loop-perf pass, whether the lookup misses or the loop is rewritten.
C7_RateTableImmutable ==
  [][ phase = "perf" => rj' = rj ]_vars

\* C7 witness: after a rewritten loop and a skipped loop, under a table that
\* has the skipped loop's module but not its function.
C7_Witness ==
  /\ \E l \in visited : ret[l] = "true"
  /\ \E l \in visited :
       /\ ret[l] = "false"
       /\ JContains(rj, Key(l)[1])
       /\ ~JContains(rj.m[Key(l)[1]], Key(l)[2])

C9_FirstMatchWinsFrame ==
  [][ \A l \in LoopIds :
        (l \in visited' /\ l \notin visited /\ ret'[l] = "true") =>
          \E i \in DOMAIN loops[l].ops :
            /\ loops[l].ops[i] # OpPhi
            /\ \A k \in DOMAIN loops[l].ops : k < i => loops[l].ops[k] = OpPhi
            /\ loops'[l].ops[i].k = "const"
            /\ loops' = [loops EXCEPT ![l].ops[i] = loops'[l].ops[i]]
            /\ \A k \in LoopIds : StringifyLoop(loops', k) = StringifyLoop(loops, k) ]_vars

\* C9 witness: a loop was rewritten to a new step, its phi operand is in
\* place, and another loop of the same function is as it was.
C9_Witness ==
  \E l, k \in LoopIds :
    /\ l # k /\ loops[l].fn = loops[k].fn
    /\ ret[l] = "true"
    /\ loops[l].ops[1] = OpPhi /\ loops[l].ops[2] = OpConst(2)
    /\ k \in visited /\ loops[k].ops = BaseShape.ops

\* C10 (pipeline safety): when the keys of the rates table are among the
\* entries the loop-count pass wrote for the same IR, no runOnLoop call, in
\* any order of the loops, dereferences a null induction variable or a null
\* increment.
C10_PipelineSafety ==
  (\E l \in LoopIds : ret[l] = "ub") =>
    ~(JKeys(rj) \subseteq JKeys(infoFile.content))

\* C10 witness: two loops of one function, both in the table, were both
\* rewritten.
C10_Witness ==
  /\ JKeys(rj) \subseteq JKeys(infoFile.content)
  /\ \E l, k \in LoopIds :
       /\ l # k /\ loops[l].fn = loops[k].fn
       /\ ret[l] = "true" /\ ret[k] = "true"
       /\ loops[l].ops[2] # OpConst(1) /\ loops[k].ops[2] # OpConst(1)

====
